---- MODULE Spec2Model ----
(***************************************************************************)
(* Model of the budget data layer of doeat: the persistence service        *)
(* (services/dataService.ts) and the data hook useBudgetData (the facade). *)
(*                                                                         *)
(* Objects are functions from field names to values, so that a missing key *)
(* and a key holding undefined are different objects, as in JavaScript.    *)
(* Ids are the integers handed out by generateId; times are seconds since the epoch.  *)
(* name, startDate, endDate, description and notes are payload that no      *)
(* operation reads; incomeAmount, budgetAmount, amount and date stand for   *)
(* the payload of their entity.                                            *)
(*                                                                         *)
(* Spec is a session of the hook on the slot; SvcSpec calls the functions  *)
(* of the service directly, on any content of the slot; CalcSpec applies   *)
(* the summary functions to stores drawn from bounded sets.                *)
(***************************************************************************)
EXTENDS Integers, Sequences, FiniteSets, TLC

VARIABLES
    data,            \* useState<AppData | null>: the in-memory store
    loading,         \* useState(true): data is null while loading
    wasDataCleared,  \* useState(false)
    slot,            \* localStorage[STORAGE_KEY]
    now,             \* Date.now()
    nextId,          \* the next value generateId returns
    pc,              \* "boot" | "effect" | "idle" | "crashed": position of the session
    ops,             \* number of user actions so far (bounded)
    rejects,         \* number of storage writes the environment rejected so far (bounded)
    last,            \* history: the last facade operation, its argument and the error it raised
    prev,            \* history: the in-memory store before the last facade operation
    prevSlot,        \* history: the slot before the last facade operation
    result,          \* the value returned by the last direct call of a service function
    sessions         \* the sessions open on the slot at the same time, when there are two

vars == <<data, loading, wasDataCleared, slot, now, nextId, pc, ops, rejects, last, prev, prevSlot,
          result, sessions>>

-----------------------------------------------------------------------------
(* Bounds of the exploration *)

MaxOps == 2
MaxYears == 1
MaxRejects == 1

(* Program constants *)

\* ONE_YEAR_MS / 1000: times are counted in seconds (TLC's integers have 32 bits)
ONE_YEAR_S == 365 * 24 * 60 * 60

\* activePeriodId?: string -- the value of a missing or unset optional field
Undefined == -1

-----------------------------------------------------------------------------
(* JavaScript objects *)

\* o.k, undefined when the key is missing
Get(o, k) == IF k \in DOMAIN o THEN o[k] ELSE Undefined

\* { ...o, ...u }
Spread(o, u) == [k \in (DOMAIN o) \cup (DOMAIN u) |-> IF k \in DOMAIN u THEN u[k] ELSE o[k]]

\* the ids of a collection
Ids(xs) == {xs[i].id : i \in 1..Len(xs)}

-----------------------------------------------------------------------------
(* Persistence service: services/dataService.ts *)

DAY_S == 24 * 60 * 60

\* new Date(t).toISOString().split('T')[0], as a day number
DateOf(t) == t \div DAY_S

\* localStorage.getItem(STORAGE_KEY) is null
Absent == [kind |-> "absent"]

\* a slot content JSON.parse rejects
Garbage == [kind |-> "garbage"]

\* JSON.stringify(o, null, indent): a key holding undefined is not written
JSONstringify(o, indent) ==
    [kind |-> "json", indent |-> indent,
     doc |-> [k \in {j \in DOMAIN o : j = "activePeriodId" => o[j] # Undefined} |-> o[k]]]

\* JSON.parse(text) succeeds
Parses(text) == text.kind = "json"

\* JSON.parse(text)
JSONparse(text) == text.doc

createEmptyAppData(t) ==
    [version |-> "v1", createdAt |-> t, lastUsedAt |-> t,
     periods |-> <<>>, portions |-> <<>>, expenses |-> <<>>,
     activePeriodId |-> Undefined]

\* the ids generateSeedData draws: one period, five portions, three expenses
SeedIds == 9

\* seed data whose expenses name the portions one position too far
generateSeedDataShifted(t, id0) ==
    LET periodId == id0
        today == DateOf(t)
    IN [version |-> "v1", createdAt |-> t, lastUsedAt |-> t,
        periods |-> << [id |-> periodId, incomeAmount |-> 10000000] >>,
        portions |-> <<
            [id |-> id0 + 1, periodId |-> periodId, budgetAmount |-> 3000000],
            [id |-> id0 + 2, periodId |-> periodId, budgetAmount |-> 1000000],
            [id |-> id0 + 3, periodId |-> periodId, budgetAmount |-> 2000000],
            [id |-> id0 + 4, periodId |-> periodId, budgetAmount |-> 500000],
            [id |-> id0 + 5, periodId |-> periodId, budgetAmount |-> 3500000] >>,
        expenses |-> <<
            [id |-> id0 + 6, periodId |-> periodId, portionId |-> id0 + 6, date |-> today, amount |-> 50000],
            [id |-> id0 + 7, periodId |-> periodId, portionId |-> id0 + 6, date |-> today, amount |-> 30000],
            [id |-> id0 + 8, periodId |-> periodId, portionId |-> id0 + 7, date |-> today, amount |-> 25000] >>,
        activePeriodId |-> periodId]

generateSeedData(t, id0) ==
    LET periodId == id0
        today == DateOf(t)
    IN [version |-> "v1", createdAt |-> t, lastUsedAt |-> t,
        periods |-> << [id |-> periodId, incomeAmount |-> 10000000] >>,
        portions |-> <<
            [id |-> id0 + 1, periodId |-> periodId, budgetAmount |-> 3000000],
            [id |-> id0 + 2, periodId |-> periodId, budgetAmount |-> 1000000],
            [id |-> id0 + 3, periodId |-> periodId, budgetAmount |-> 2000000],
            [id |-> id0 + 4, periodId |-> periodId, budgetAmount |-> 500000],
            [id |-> id0 + 5, periodId |-> periodId, budgetAmount |-> 3500000] >>,
        expenses |-> <<
            [id |-> id0 + 6, periodId |-> periodId, portionId |-> id0 + 1, date |-> today, amount |-> 50000],
            [id |-> id0 + 7, periodId |-> periodId, portionId |-> id0 + 1, date |-> today, amount |-> 30000],
            [id |-> id0 + 8, periodId |-> periodId, portionId |-> id0 + 2, date |-> today, amount |-> 25000] >>,
        activePeriodId |-> periodId]

\* new Date(data.createdAt).getTime() is a number (not NaN)
ValidDate(d) == "createdAt" \in DOMAIN d /\ d.createdAt >= 0

\* expiry counted from the last use instead of the creation
isDataExpiredByLastUse(d, t) == ValidDate(d) /\ (t - d.lastUsedAt) > ONE_YEAR_S

\* expiry on the anniversary itself
isDataExpiredAtOneYear(d, t) == ValidDate(d) /\ (t - d.createdAt) >= ONE_YEAR_S

isDataExpired(d, t) == ValidDate(d) /\ (t - d.createdAt) > ONE_YEAR_S

\* a stamp that renews the creation time as well
StampCreation(d, t) == Spread(d, [lastUsedAt |-> t, createdAt |-> t])

\* data.lastUsedAt = new Date().toISOString(): assignment into the object itself
Stamp(d, t) == Spread(d, [lastUsedAt |-> t])

\* saveDataToLocalStorage(data) with the write accepted: the new slot content
saveDataToLocalStorage(d, t) == JSONstringify(Stamp(d, t), 0)

\* loadDataFromLocalStorage(): w1 tells whether the write in the try block is
\* accepted, w2 the write in the catch block.  The result carries the slot
\* afterwards, the next id, the number of writes rejected, and whether the call threw.
loadDataFromLocalStorage(stored, t, id0, w1, w2) ==
    LET catch(idc, n) ==
            LET freshData == generateSeedData(t, idc)
            IN IF w2
               THEN [threw |-> FALSE, data |-> freshData, wasCleared |-> FALSE,
                     slot |-> saveDataToLocalStorage(freshData, t),
                     ids |-> idc + SeedIds, rejected |-> n]
               ELSE [threw |-> TRUE, data |-> freshData, wasCleared |-> FALSE,
                     slot |-> stored, ids |-> idc + SeedIds, rejected |-> n + 1]
    IN IF stored = Absent
       THEN LET seedData == generateSeedData(t, id0)
            IN IF w1
               THEN [threw |-> FALSE, data |-> seedData, wasCleared |-> FALSE,
                     slot |-> saveDataToLocalStorage(seedData, t),
                     ids |-> id0 + SeedIds, rejected |-> 0]
               ELSE catch(id0 + SeedIds, 1)
       ELSE IF ~Parses(stored) THEN catch(id0, 0)
       ELSE LET d == JSONparse(stored)
            IN IF isDataExpired(d, t)
               THEN LET freshData == createEmptyAppData(t)
                    IN IF w1
                       THEN [threw |-> FALSE, data |-> freshData, wasCleared |-> TRUE,
                             slot |-> saveDataToLocalStorage(freshData, t),
                             ids |-> id0, rejected |-> 0]
                       ELSE catch(id0, 1)
               ELSE IF w1
                    THEN [threw |-> FALSE, data |-> Stamp(d, t), wasCleared |-> FALSE,
                          slot |-> saveDataToLocalStorage(d, t),
                          ids |-> id0, rejected |-> 0]
                    ELSE catch(id0, 1)

\* localStorage.removeItem(STORAGE_KEY): the new slot content
clearAllData == Absent

\* an export that leaves out which period is active
exportWithoutActivePeriod(d) ==
    JSONstringify([k \in DOMAIN d \ {"activePeriodId"} |-> d[k]], 2)

\* JSON.stringify(data, null, 2)
exportDataAsJson(d) == JSONstringify(d, 2)

\* !o.k: the key is missing or holds a falsy value.  Of the falsy values the
\* model has the empty string, which only version can hold; the collections
\* hold arrays, which are truthy.
Falsy(o, k) == k \notin DOMAIN o \/ (k = "version" /\ o[k] = "")

\* importDataFromJson that does not look at expenses
importThrowsUnlessCollections(text) ==
    \/ ~Parses(text)
    \/ \E k \in {"version", "periods", "portions"} : Falsy(JSONparse(text), k)

\* importDataFromJson(jsonString) throws
importThrows(text) ==
    \/ ~Parses(text)
    \/ \E k \in {"version", "periods", "portions", "expenses"} : Falsy(JSONparse(text), k)

\* importDataFromJson(jsonString), when it does not throw
importDataFromJson(text, t) == Stamp(JSONparse(text), t)

-----------------------------------------------------------------------------
(* Derived summaries: services/dataService.ts *)

\* a JavaScript number that is the quotient of two integers, kept exactly as
\* numerator and denominator (the rounding of doubles is not modelled)
Quotient(a, b) == [num |-> a, den |-> b]
Times(q, n) == [num |-> q.num * n, den |-> q.den]
Number(n) == [num |-> n, den |-> 1]

\* xs.reduce((sum, e) => sum + e.amount, 0)
SumAmounts(xs) ==
    LET F[n \in 0..Len(xs)] == IF n = 0 THEN 0 ELSE F[n - 1] + xs[n].amount
    IN F[Len(xs)]

\* a portion summary that takes every expense of the portion's period
calculatePortionSummaryByPeriod(portion, expenses) ==
    LET portionExpenses == SelectSeq(expenses, LAMBDA e : e.periodId = portion.periodId)
        used == SumAmounts(portionExpenses)
    IN [portion |-> portion,
        budget |-> portion.budgetAmount,
        used |-> used,
        remaining |-> portion.budgetAmount - used,
        percentUsed |-> IF portion.budgetAmount > 0
                        THEN Times(Quotient(used, portion.budgetAmount), 100)
                        ELSE Number(0),
        isOverBudget |-> used > portion.budgetAmount]

calculatePortionSummary(portion, expenses) ==
    LET portionExpenses == SelectSeq(expenses, LAMBDA e : e.portionId = portion.id)
        used == SumAmounts(portionExpenses)
    IN [portion |-> portion,
        budget |-> portion.budgetAmount,
        used |-> used,
        remaining |-> portion.budgetAmount - used,
        percentUsed |-> IF portion.budgetAmount > 0
                        THEN Times(Quotient(used, portion.budgetAmount), 100)
                        ELSE Number(0),
        isOverBudget |-> used > portion.budgetAmount]

\* xs.reduce((sum, p) => sum + p.budgetAmount, 0)
SumBudgets(xs) ==
    LET F[n \in 0..Len(xs)] == IF n = 0 THEN 0 ELSE F[n - 1] + xs[n].budgetAmount
    IN F[Len(xs)]

\* a period summary that counts an expense only under a portion of the period
calculatePeriodSummaryByPortions(period, portions, expenses) ==
    LET periodPortions == SelectSeq(portions, LAMBDA p : p.periodId = period.id)
        periodExpenses == SelectSeq(expenses, LAMBDA e : e.portionId \in Ids(periodPortions))
        totalIncome == period.incomeAmount
        totalBudgeted == SumBudgets(periodPortions)
        totalExpenses == SumAmounts(periodExpenses)
    IN [totalIncome |-> totalIncome,
        totalBudgeted |-> totalBudgeted,
        totalExpenses |-> totalExpenses,
        remainingBudget |-> totalBudgeted - totalExpenses,
        remainingIncome |-> totalIncome - totalExpenses,
        unallocatedIncome |-> totalIncome - totalBudgeted,
        overallPercentUsed |-> IF totalBudgeted > 0
                               THEN Times(Quotient(totalExpenses, totalBudgeted), 100)
                               ELSE Number(0),
        isOverBudget |-> totalExpenses > totalBudgeted]

calculatePeriodSummary(period, portions, expenses) ==
    LET periodPortions == SelectSeq(portions, LAMBDA p : p.periodId = period.id)
        periodExpenses == SelectSeq(expenses, LAMBDA e : e.periodId = period.id)
        totalIncome == period.incomeAmount
        totalBudgeted == SumBudgets(periodPortions)
        totalExpenses == SumAmounts(periodExpenses)
    IN [totalIncome |-> totalIncome,
        totalBudgeted |-> totalBudgeted,
        totalExpenses |-> totalExpenses,
        remainingBudget |-> totalBudgeted - totalExpenses,
        remainingIncome |-> totalIncome - totalExpenses,
        unallocatedIncome |-> totalIncome - totalBudgeted,
        overallPercentUsed |-> IF totalBudgeted > 0
                               THEN Times(Quotient(totalExpenses, totalBudgeted), 100)
                               ELSE Number(0),
        isOverBudget |-> totalExpenses > totalBudgeted]

\* portion summaries computed over the expenses of every period
getPortionSummariesOfAllExpenses(periodId, portions, expenses) ==
    LET periodPortions == SelectSeq(portions, LAMBDA p : p.periodId = periodId)
    IN [i \in DOMAIN periodPortions |-> calculatePortionSummary(periodPortions[i], expenses)]

getPortionSummaries(periodId, portions, expenses) ==
    LET periodPortions == SelectSeq(portions, LAMBDA p : p.periodId = periodId)
        periodExpenses == SelectSeq(expenses, LAMBDA e : e.periodId = periodId)
    IN [i \in DOMAIN periodPortions |-> calculatePortionSummary(periodPortions[i], periodExpenses)]

-----------------------------------------------------------------------------
(* The facade useBudgetData: the state updaters handed to setData *)

setActivePeriodUpdater(s, periodId) == Spread(s, [activePeriodId |-> periodId])

\* addPeriod putting the new period in front
addPeriodInFront(s, newPeriod) ==
    Spread(s, [periods |-> <<newPeriod>> \o s.periods, activePeriodId |-> newPeriod.id])

addPeriodUpdater(s, newPeriod) ==
    Spread(s, [periods |-> Append(s.periods, newPeriod), activePeriodId |-> newPeriod.id])

updatePeriodUpdater(s, periodId, updates) ==
    Spread(s, [periods |->
        [i \in 1..Len(s.periods) |->
            IF s.periods[i].id = periodId THEN Spread(s.periods[i], updates) ELSE s.periods[i]]])

\* deletePeriod without the cascade to expenses
deletePeriodKeepsExpenses(s, periodId) ==
    LET newPeriods == SelectSeq(s.periods, LAMBDA p : p.id # periodId)
    IN Spread(s, [periods |-> newPeriods,
                  portions |-> SelectSeq(s.portions, LAMBDA p : p.periodId # periodId),
                  activePeriodId |-> IF Len(newPeriods) > 0 THEN newPeriods[1].id ELSE Undefined])

\* deletePeriod making the last remaining period the active one
deletePeriodActivatesLast(s, periodId) ==
    LET newPeriods == SelectSeq(s.periods, LAMBDA p : p.id # periodId)
    IN Spread(s, [periods |-> newPeriods,
                  portions |-> SelectSeq(s.portions, LAMBDA p : p.periodId # periodId),
                  expenses |-> SelectSeq(s.expenses, LAMBDA e : e.periodId # periodId),
                  activePeriodId |-> IF Len(newPeriods) > 0
                                     THEN newPeriods[Len(newPeriods)].id ELSE Undefined])

deletePeriodUpdater(s, periodId) ==
    LET newPeriods == SelectSeq(s.periods, LAMBDA p : p.id # periodId)
    IN Spread(s, [periods |-> newPeriods,
                  portions |-> SelectSeq(s.portions, LAMBDA p : p.periodId # periodId),
                  expenses |-> SelectSeq(s.expenses, LAMBDA e : e.periodId # periodId),
                  activePeriodId |-> IF Len(newPeriods) > 0 THEN newPeriods[1].id ELSE Undefined])

addPortionUpdater(s, newPortion) == Spread(s, [portions |-> Append(s.portions, newPortion)])

updatePortionUpdater(s, portionId, updates) ==
    Spread(s, [portions |->
        [i \in 1..Len(s.portions) |->
            IF s.portions[i].id = portionId THEN Spread(s.portions[i], updates) ELSE s.portions[i]]])

\* deletePortion removing every expense of the portion's period
deletePortionDropsPeriodExpenses(s, portionId) ==
    LET gone == {s.portions[i].periodId : i \in {j \in DOMAIN s.portions : s.portions[j].id = portionId}}
    IN Spread(s, [portions |-> SelectSeq(s.portions, LAMBDA p : p.id # portionId),
                  expenses |-> SelectSeq(s.expenses, LAMBDA e : e.periodId \notin gone)])

\* deletePortion without the cascade to the portion's expenses
deletePortionKeepsExpenses(s, portionId) ==
    Spread(s, [portions |-> SelectSeq(s.portions, LAMBDA p : p.id # portionId)])

deletePortionUpdater(s, portionId) ==
    Spread(s, [portions |-> SelectSeq(s.portions, LAMBDA p : p.id # portionId),
               expenses |-> SelectSeq(s.expenses, LAMBDA e : e.portionId # portionId)])

addExpenseUpdater(s, newExpense) == Spread(s, [expenses |-> Append(s.expenses, newExpense)])

updateExpenseUpdater(s, expenseId, updates) ==
    Spread(s, [expenses |->
        [i \in 1..Len(s.expenses) |->
            IF s.expenses[i].id = expenseId THEN Spread(s.expenses[i], updates) ELSE s.expenses[i]]])

deleteExpenseUpdater(s, expenseId) ==
    Spread(s, [expenses |-> SelectSeq(s.expenses, LAMBDA e : e.id # expenseId)])

\* xs.sort((a, b) => b.date.localeCompare(a.date)): by date descending, stable
SortByDateDescending(xs) ==
    LET F[n \in 0..Len(xs)] ==
            IF n = 0 THEN <<>>
            ELSE LET before == SelectSeq(F[n - 1], LAMBDA e : e.date >= xs[n].date)
                     after == SelectSeq(F[n - 1], LAMBDA e : e.date < xs[n].date)
                 IN before \o <<xs[n]>> \o after
    IN F[Len(xs)]

\* getFilteredExpenses taking the end date as exclusive
getFilteredExpensesBeforeEnd(d, filters) ==
    IF Get(d, "activePeriodId") = Undefined THEN <<>>
    ELSE LET byPeriod == SelectSeq(d.expenses, LAMBDA e : e.periodId = d.activePeriodId)
             byStart == IF Get(filters, "startDate") # Undefined
                        THEN SelectSeq(byPeriod, LAMBDA e : e.date >= filters.startDate)
                        ELSE byPeriod
             byEnd == IF Get(filters, "endDate") # Undefined
                      THEN SelectSeq(byStart, LAMBDA e : e.date < filters.endDate)
                      ELSE byStart
             byPortion == IF Get(filters, "portionId") # Undefined
                          THEN SelectSeq(byEnd, LAMBDA e : e.portionId = filters.portionId)
                          ELSE byEnd
         IN SortByDateDescending(byPortion)

\* getFilteredExpenses(filters): a filter that is undefined is not applied; the
\* list sorted is the new array made by the filter on the period
getFilteredExpenses(d, filters) ==
    IF Get(d, "activePeriodId") = Undefined THEN <<>>
    ELSE LET byPeriod == SelectSeq(d.expenses, LAMBDA e : e.periodId = d.activePeriodId)
             byStart == IF Get(filters, "startDate") # Undefined
                        THEN SelectSeq(byPeriod, LAMBDA e : e.date >= filters.startDate)
                        ELSE byPeriod
             byEnd == IF Get(filters, "endDate") # Undefined
                      THEN SelectSeq(byStart, LAMBDA e : e.date <= filters.endDate)
                      ELSE byStart
             byPortion == IF Get(filters, "portionId") # Undefined
                          THEN SelectSeq(byEnd, LAMBDA e : e.portionId = filters.portionId)
                          ELSE byEnd
         IN SortByDateDescending(byPortion)

-----------------------------------------------------------------------------
(* The expense list of the Expenses component *)

\* useState(''): the value of a filter nothing has been chosen for
EmptyString == -3

\* <SelectItem value="all">: the value of the option 'All categories', a
\* string that is the id of no portion
AllCategories == -2

\* x || undefined
OrUndefined(x) == IF x = EmptyString THEN Undefined ELSE x

\* the list the component shows for its three filter states
filteredExpenses(d, filterPortionId, filterStartDate, filterEndDate) ==
    getFilteredExpenses(d, [portionId |-> OrUndefined(filterPortionId),
                            startDate |-> OrUndefined(filterStartDate),
                            endDate |-> OrUndefined(filterEndDate)])

-----------------------------------------------------------------------------
(* Inputs *)

\* an id generateId never returns
NoSuchId == 0

Amounts == {20000}

\* the period, portion and expense ids a caller can name: those in the store and a stranger
PeriodArgs == Ids(data.periods) \cup {NoSuchId}
PortionArgs == Ids(data.portions) \cup {NoSuchId}
ExpenseArgs == Ids(data.expenses) \cup {NoSuchId}

\* the portions a new or edited expense is put under: the first and the last of the store
PortionChoices == {data.portions[i].id : i \in {1, Len(data.portions)} \cap DOMAIN data.portions}

\* the id an update may carry in its id field: that of the first entity of the collection
IdUpdates(xs) == {[id |-> xs[i].id] : i \in {1} \cap DOMAIN xs}

\* a store as an earlier session left it in the slot at time 0: two periods, each
\* with one portion and one expense, the period added last being the active one
StoredStore ==
    [version |-> "v1", createdAt |-> 0, lastUsedAt |-> 0,
     periods |-> << [id |-> 1, incomeAmount |-> 20000], [id |-> 4, incomeAmount |-> 20000] >>,
     portions |-> << [id |-> 2, periodId |-> 1, budgetAmount |-> 20000],
                     [id |-> 5, periodId |-> 4, budgetAmount |-> 20000] >>,
     expenses |-> << [id |-> 3, periodId |-> 1, portionId |-> 2, date |-> 0, amount |-> 20000],
                     [id |-> 6, periodId |-> 4, portionId |-> 5, date |-> 0, amount |-> 20000] >>,
     activePeriodId |-> 4]

\* the write of the next call may be rejected
MayReject == {TRUE} \cup {w \in {FALSE} : rejects < MaxRejects}

\* an exported store of another installation, created at time c
ImportedStore(c, active) ==
    [version |-> "v1", createdAt |-> c, lastUsedAt |-> c,
     periods |-> << [id |-> 90, incomeAmount |-> 20000] >>,
     portions |-> << [id |-> 91, periodId |-> 90, budgetAmount |-> 20000] >>,
     expenses |-> << >>,
     activePeriodId |-> active]

\* the texts pasted into the import dialog
ImportTexts ==
    { Garbage,
      [kind |-> "json", indent |-> 2, doc |-> [version |-> "v1", periods |-> <<>>, portions |-> <<>>]],
      JSONstringify(ImportedStore(0, 90), 2),
      JSONstringify(ImportedStore(0, 99), 2) }

\* the state of data while loading (null): never read
NullData == [version |-> "null"]

\* the errors the service raises, and none
NoError == ""
InvalidJSON == "Invalid JSON format. Please check your data."
StorageFull == "Failed to save data. Storage might be full."

NoOp == [op |-> "none", arg |-> NoSuchId, error |-> NoError]

\* no service function has been called directly
NoResult == [op |-> "none"]

\* a single session is open
NoSessions == [clock |-> 0]

\* saveDataToLocalStorage(data) that swallows the rejection of its write
saveSwallowingRejection(stored, d, t, w) ==
    IF w THEN [slot |-> saveDataToLocalStorage(d, t), error |-> NoError, rejected |-> 0]
         ELSE [slot |-> stored, error |-> NoError, rejected |-> 1]

\* saveDataToLocalStorage(data) on the slot content stored: w tells whether
\* setItem is accepted; the slot afterwards and the error thrown
saveOutcome(stored, d, t, w) ==
    IF w THEN [slot |-> saveDataToLocalStorage(d, t), error |-> NoError, rejected |-> 0]
         ELSE [slot |-> stored, error |-> StorageFull, rejected |-> 1]

-----------------------------------------------------------------------------
(* The session: mount, effects, facade operations *)

Init ==
    /\ data = NullData
    /\ loading = TRUE
    /\ wasDataCleared = FALSE
    /\ slot \in {Absent, Garbage, saveDataToLocalStorage(createEmptyAppData(0), 0),
                 saveDataToLocalStorage(StoredStore, 0)}
    /\ now = 0
    /\ nextId = 7
    /\ rejects = 0
    /\ pc = "boot"
    /\ ops = 0
    /\ last = NoOp
    /\ prev = NullData
    /\ prevSlot = slot
    /\ result = NoResult
    /\ sessions = NoSessions

\* useEffect(() => { loadDataFromLocalStorage(); setData; ... }, [])
Load ==
    /\ pc = "boot"
    /\ \E w1, w2 \in BOOLEAN :
        LET r == loadDataFromLocalStorage(slot, now, nextId, w1, w2)
        IN /\ rejects + r.rejected <= MaxRejects
           /\ slot' = r.slot
           /\ nextId' = r.ids
           /\ rejects' = rejects + r.rejected
           /\ IF r.threw
              THEN /\ pc' = "crashed"
                   /\ UNCHANGED <<data, loading, wasDataCleared>>
              ELSE /\ pc' = "effect"
                   /\ data' = r.data
                   /\ loading' = FALSE
                   /\ wasDataCleared' = r.wasCleared
    /\ last' = [op |-> "load", arg |-> NoSuchId,
                error |-> IF pc' = "crashed" THEN StorageFull ELSE NoError]
    /\ prev' = NullData
    /\ prevSlot' = slot
    /\ UNCHANGED <<now, ops, result, sessions>>

\* useEffect(() => { if (data) saveDataToLocalStorage(data); }, [data])
Persist ==
    /\ pc = "effect"
    /\ data' = Stamp(data, now)
    /\ \E w \in MayReject :
        IF w THEN slot' = saveDataToLocalStorage(data, now) /\ pc' = "idle" /\ rejects' = rejects
             ELSE slot' = slot /\ pc' = "crashed" /\ rejects' = rejects + 1
    /\ UNCHANGED <<loading, wasDataCleared, now, nextId, ops, last, prev, prevSlot, result, sessions>>

\* a handler runs once the effects of the last render have run, on a loaded store
Ready == pc = "idle" /\ ops < MaxOps

\* setData without the persist effect running afterwards
SetDataNoEffect(op, arg, newData) ==
    /\ data' = newData
    /\ prev' = data
    /\ prevSlot' = slot
    /\ last' = [op |-> op, arg |-> arg, error |-> NoError]
    /\ pc' = "idle"
    /\ ops' = ops + 1
    /\ UNCHANGED <<loading, wasDataCleared, slot, now, rejects, result, sessions>>

\* a facade operation that calls setData(updater): the new state, and the effect is due
SetData(op, arg, newData) ==
    /\ data' = newData
    /\ prev' = data
    /\ prevSlot' = slot
    /\ last' = [op |-> op, arg |-> arg, error |-> NoError]
    /\ pc' = "effect"
    /\ ops' = ops + 1
    /\ UNCHANGED <<loading, wasDataCleared, slot, now, rejects, result, sessions>>

setActivePeriod ==
    /\ Ready
    /\ \E periodId \in PeriodArgs :
        /\ SetData("setActivePeriod", periodId, setActivePeriodUpdater(data, periodId))
        /\ UNCHANGED nextId

addPeriod ==
    /\ Ready
    /\ \E incomeAmount \in Amounts :
        /\ SetData("addPeriod", nextId,
                   addPeriodUpdater(data, [id |-> nextId, incomeAmount |-> incomeAmount]))
        /\ nextId' = nextId + 1

updatePeriod ==
    /\ Ready
    /\ \E periodId \in Ids(data.periods) :
      \E updates \in {[incomeAmount |-> a] : a \in Amounts} \cup IdUpdates(data.periods) :
        /\ SetData("updatePeriod", periodId, updatePeriodUpdater(data, periodId, updates))
        /\ UNCHANGED nextId

deletePeriod ==
    /\ Ready
    /\ \E periodId \in PeriodArgs :
        /\ SetData("deletePeriod", periodId, deletePeriodUpdater(data, periodId))
        /\ UNCHANGED nextId

addPortion ==
    /\ Ready
    /\ \E periodId \in PeriodArgs, budgetAmount \in Amounts :
        /\ SetData("addPortion", nextId,
                   addPortionUpdater(data, [id |-> nextId, periodId |-> periodId,
                                            budgetAmount |-> budgetAmount]))
        /\ nextId' = nextId + 1

updatePortion ==
    /\ Ready
    /\ \E portionId \in Ids(data.portions) :
      \E updates \in {[budgetAmount |-> a] : a \in Amounts}
                     \cup {[periodId |-> x] : x \in Ids(data.periods)}
                     \cup IdUpdates(data.portions) :
        /\ SetData("updatePortion", portionId, updatePortionUpdater(data, portionId, updates))
        /\ UNCHANGED nextId

deletePortion ==
    /\ Ready
    /\ \E portionId \in PortionArgs :
        /\ SetData("deletePortion", portionId, deletePortionUpdater(data, portionId))
        /\ UNCHANGED nextId

addExpense ==
    /\ Ready
    /\ \E periodId \in PeriodArgs, portionId \in PortionChoices \cup {NoSuchId}, amount \in Amounts :
        /\ SetData("addExpense", nextId,
                   addExpenseUpdater(data, [id |-> nextId, periodId |-> periodId,
                                            portionId |-> portionId,
                                            date |-> DateOf(now), amount |-> amount]))
        /\ nextId' = nextId + 1

updateExpense ==
    /\ Ready
    /\ \E expenseId \in Ids(data.expenses) :
      \E updates \in {[portionId |-> x, amount |-> a] : x \in PortionChoices, a \in Amounts}
                     \cup {[periodId |-> x] : x \in Ids(data.periods)}
                     \cup IdUpdates(data.expenses) :
        /\ SetData("updateExpense", expenseId, updateExpenseUpdater(data, expenseId, updates))
        /\ UNCHANGED nextId

deleteExpense ==
    /\ Ready
    /\ \E expenseId \in ExpenseArgs :
        /\ SetData("deleteExpense", expenseId, deleteExpenseUpdater(data, expenseId))
        /\ UNCHANGED nextId

\* exportData(): data ? exportDataAsJson(data) : ''
exportData ==
    /\ Ready
    /\ ops' = ops + 1
    /\ prev' = data
    /\ prevSlot' = slot
    /\ result' = exportDataAsJson(data)
    /\ last' = [op |-> "exportData", arg |-> NoSuchId, error |-> NoError]
    /\ UNCHANGED <<data, loading, wasDataCleared, slot, now, nextId, pc, rejects, sessions>>

\* importData clearing the slot before it reads the text
importDataClearsFirst ==
    /\ Ready
    /\ ops' = ops + 1
    /\ prev' = data
    /\ prevSlot' = slot
    /\ \E jsonString \in ImportTexts :
        IF importThrows(jsonString)
        THEN /\ last' = [op |-> "importData", arg |-> jsonString, error |-> InvalidJSON]
             /\ slot' = Absent
             /\ UNCHANGED <<data, pc, rejects>>
        ELSE LET importedData == importDataFromJson(jsonString, now)
             IN /\ data' = importedData
                /\ pc' = "effect"
                /\ \E w \in MayReject :
                    /\ slot' = IF w THEN saveDataToLocalStorage(importedData, now) ELSE Absent
                    /\ rejects' = IF w THEN rejects ELSE rejects + 1
                    /\ last' = [op |-> "importData", arg |-> jsonString,
                                error |-> IF w THEN NoError ELSE StorageFull]
    /\ UNCHANGED <<loading, wasDataCleared, now, nextId, result, sessions>>

\* importData(jsonString): importDataFromJson; setData; saveDataToLocalStorage
importData ==
    /\ Ready
    /\ ops' = ops + 1
    /\ prev' = data
    /\ prevSlot' = slot
    /\ \E jsonString \in ImportTexts :
        IF importThrows(jsonString)
        THEN /\ last' = [op |-> "importData", arg |-> jsonString, error |-> InvalidJSON]
             /\ UNCHANGED <<data, slot, pc, rejects>>
        ELSE LET importedData == importDataFromJson(jsonString, now)
             IN /\ data' = importedData
                /\ pc' = "effect"
                /\ \E w \in MayReject :
                    /\ slot' = IF w THEN saveDataToLocalStorage(importedData, now) ELSE slot
                    /\ rejects' = IF w THEN rejects ELSE rejects + 1
                    /\ last' = [op |-> "importData", arg |-> jsonString,
                                error |-> IF w THEN NoError ELSE StorageFull]
    /\ UNCHANGED <<loading, wasDataCleared, now, nextId, result, sessions>>

\* resetData(): clearAllData; loadDataFromLocalStorage; setData
resetData ==
    /\ Ready
    /\ ops' = ops + 1
    /\ prev' = data
    /\ prevSlot' = slot
    /\ \E w1, w2 \in BOOLEAN :
        LET r == loadDataFromLocalStorage(Absent, now, nextId, w1, w2)
        IN /\ rejects + r.rejected <= MaxRejects
           /\ slot' = r.slot
           /\ nextId' = r.ids
           /\ rejects' = rejects + r.rejected
           /\ last' = [op |-> "resetData", arg |-> NoSuchId,
                       error |-> IF r.threw THEN StorageFull ELSE NoError]
           /\ IF r.threw THEN UNCHANGED <<data, pc>>
                         ELSE data' = r.data /\ pc' = "effect"
    /\ UNCHANGED <<loading, wasDataCleared, now, result, sessions>>

\* clearData that leaves the writing of the empty store out
clearDataWithoutSave ==
    /\ Ready
    /\ ops' = ops + 1
    /\ prev' = data
    /\ prevSlot' = slot
    /\ data' = createEmptyAppData(now)
    /\ pc' = "effect"
    /\ slot' = clearAllData
    /\ last' = [op |-> "clearData", arg |-> NoSuchId, error |-> NoError]
    /\ UNCHANGED <<loading, wasDataCleared, now, nextId, rejects, result, sessions>>

\* clearData(): clearAllData; setData(emptyData); saveDataToLocalStorage(emptyData)
clearData ==
    /\ Ready
    /\ ops' = ops + 1
    /\ prev' = data
    /\ prevSlot' = slot
    /\ LET emptyData == createEmptyAppData(now)
       IN /\ data' = emptyData
          /\ pc' = "effect"
          /\ \E w \in MayReject :
              /\ rejects' = IF w THEN rejects ELSE rejects + 1
              /\ slot' = IF w THEN saveDataToLocalStorage(emptyData, now) ELSE Absent
              /\ last' = [op |-> "clearData", arg |-> NoSuchId,
                          error |-> IF w THEN NoError ELSE StorageFull]
    /\ UNCHANGED <<loading, wasDataCleared, now, nextId, result, sessions>>

\* the page is closed and opened again, at once, a second later or a year (and a
\* second) later: a new session mounts
Reload ==
    /\ pc \in {"idle", "crashed"}
    /\ ops < MaxOps
    /\ ops' = ops + 1
    /\ \E gap \in {0, 1, ONE_YEAR_S, ONE_YEAR_S + 1} :
        /\ now + gap <= MaxYears * (ONE_YEAR_S + 1)
        /\ now' = now + gap
    /\ pc' = "boot"
    /\ data' = NullData
    /\ loading' = TRUE
    /\ wasDataCleared' = FALSE
    /\ last' = NoOp
    /\ prev' = NullData
    /\ prevSlot' = slot
    /\ UNCHANGED <<slot, nextId, rejects, result, sessions>>

Next ==
    \/ Load
    \/ Persist
    \/ setActivePeriod
    \/ addPeriod
    \/ updatePeriod
    \/ deletePeriod
    \/ addPortion
    \/ updatePortion
    \/ deletePortion
    \/ addExpense
    \/ updateExpense
    \/ deleteExpense
    \/ exportData
    \/ importData
    \/ resetData
    \/ clearData
    \/ Reload

Spec == Init /\ [][Next]_vars

-----------------------------------------------------------------------------
(* The persistence service called directly, on any content of the slot *)

\* what the slot may hold when the service is called: nothing, text that is
\* not JSON, stores saved earlier, a structure without the collections, and
\* a store without createdAt
SvcSlots ==
    { Absent, Garbage,
      saveDataToLocalStorage(createEmptyAppData(0), 0),
      saveDataToLocalStorage(StoredStore, 0),
      [kind |-> "json", indent |-> 0, doc |-> [version |-> "v1", createdAt |-> 0, lastUsedAt |-> 0]],
      [kind |-> "json", indent |-> 0,
       doc |-> [version |-> "v1", lastUsedAt |-> 0, periods |-> StoredStore.periods,
                portions |-> StoredStore.portions, expenses |-> StoredStore.expenses]] }

\* the texts handed to importDataFromJson: those of the import dialog, and an
\* exported store whose version is the empty string
SvcTexts == ImportTexts \cup {JSONstringify(Spread(ImportedStore(0, 90), [version |-> ""]), 2)}

\* the instants at which the service is called: the start, each anniversary of
\* it, and the second after each of these
Instants == {y * ONE_YEAR_S + e : y \in 0..MaxYears, e \in {0, 1}}

SvcInit ==
    /\ data = NullData
    /\ loading = TRUE
    /\ wasDataCleared = FALSE
    /\ slot \in SvcSlots
    /\ now = 0
    /\ nextId = 7
    /\ rejects = 0
    /\ pc = "boot"
    /\ ops = 0
    /\ last = NoOp
    /\ prev = NullData
    /\ prevSlot = slot
    /\ result = NoResult
    /\ sessions = NoSessions

\* time passes between two calls (last.at keeps the time of the last call)
Tick ==
    /\ \E t \in Instants : t > now /\ now' = t
    /\ UNCHANGED <<data, loading, wasDataCleared, slot, nextId, pc, ops, rejects, last, prev,
                   prevSlot, result, sessions>>

\* loadDataFromLocalStorage()
CallLoad ==
    /\ ops < MaxOps
    /\ ops' = ops + 1
    /\ \E w1, w2 \in BOOLEAN :
        LET r == loadDataFromLocalStorage(slot, now, nextId, w1, w2)
        IN /\ rejects + r.rejected <= MaxRejects
           /\ slot' = r.slot
           /\ nextId' = r.ids
           /\ rejects' = rejects + r.rejected
           /\ result' = r
           /\ last' = [op |-> "load", arg |-> NoSuchId, at |-> now,
                       error |-> IF r.threw THEN StorageFull ELSE NoError]
    /\ prevSlot' = slot
    /\ UNCHANGED <<data, loading, wasDataCleared, now, pc, prev, sessions>>

\* saveDataToLocalStorage(store)
CallSave ==
    /\ ops < MaxOps
    /\ ops' = ops + 1
    /\ \E store \in {createEmptyAppData(now), StoredStore}, w \in MayReject :
        LET r == saveOutcome(slot, store, now, w)
        IN /\ slot' = r.slot
           /\ rejects' = rejects + r.rejected
           /\ result' = r
           /\ last' = [op |-> "save", arg |-> store, at |-> now, error |-> r.error]
    /\ prevSlot' = slot
    /\ UNCHANGED <<data, loading, wasDataCleared, now, nextId, pc, prev, sessions>>

\* clearAllData()
CallClear ==
    /\ ops < MaxOps
    /\ ops' = ops + 1
    /\ slot' = clearAllData
    /\ result' = NoResult
    /\ last' = [op |-> "clear", arg |-> NoSuchId, at |-> now, error |-> NoError]
    /\ prevSlot' = slot
    /\ UNCHANGED <<data, loading, wasDataCleared, now, nextId, pc, rejects, prev, sessions>>

\* importDataFromJson(jsonString)
CallImport ==
    /\ ops < MaxOps
    /\ ops' = ops + 1
    /\ \E jsonString \in SvcTexts :
        /\ result' = IF importThrows(jsonString)
                     THEN [threw |-> TRUE]
                     ELSE [threw |-> FALSE, data |-> importDataFromJson(jsonString, now)]
        /\ last' = [op |-> "import", arg |-> jsonString, at |-> now,
                    error |-> IF importThrows(jsonString) THEN InvalidJSON ELSE NoError]
    /\ prevSlot' = slot
    /\ UNCHANGED <<data, loading, wasDataCleared, slot, now, nextId, pc, rejects, prev, sessions>>

SvcNext ==
    \/ Tick
    \/ CallLoad
    \/ CallSave
    \/ CallClear
    \/ CallImport

SvcSpec == SvcInit /\ [][SvcNext]_vars

-----------------------------------------------------------------------------
(* The summary functions applied to stores drawn from bounded sets *)

\* the longest list of expenses
MaxExpenses == 2

\* budgets: none, one that the expenses can reach exactly, one they can exceed
Budgets == {0, 100, 300}

\* what an expense is booked on: one of the two periods, one of the two
\* portions or a portion that does not exist, and its amount
ExpenseBookings ==
    [periodId : {1, 4}, portionId : {2, 5, NoSuchId}, amount : {100, 200}]

\* the lists of at most MaxExpenses expenses, with ids by position
ExpenseLists ==
    { [i \in DOMAIN bs |-> [id |-> 10 + i, periodId |-> bs[i].periodId,
                            portionId |-> bs[i].portionId, date |-> 0,
                            amount |-> bs[i].amount]] :
        bs \in UNION {[1..n -> ExpenseBookings] : n \in 0..MaxExpenses} }

\* the store of the example: an income of 10000000, one portion of 3000000 and
\* one expense of 50000
ExampleStore ==
    [version |-> "v1", createdAt |-> 0, lastUsedAt |-> 0,
     periods |-> << [id |-> 1, incomeAmount |-> 10000000] >>,
     portions |-> << [id |-> 2, periodId |-> 1, budgetAmount |-> 3000000] >>,
     expenses |-> << [id |-> 11, periodId |-> 1, portionId |-> 2, date |-> 0, amount |-> 50000] >>,
     activePeriodId |-> 1]

\* stores of two periods with a portion each and a third portion, added last,
\* in either of them; and the store of the example
CalcStores ==
    { [version |-> "v1", createdAt |-> 0, lastUsedAt |-> 0,
       periods |-> StoredStore.periods,
       portions |-> << [id |-> 2, periodId |-> 1, budgetAmount |-> b[1]],
                       [id |-> 5, periodId |-> 4, budgetAmount |-> b[2]],
                       [id |-> 8, periodId |-> q, budgetAmount |-> 100] >>,
       expenses |-> es,
       activePeriodId |-> 4] :
        b \in Budgets \X Budgets, q \in {1, 4}, es \in ExpenseLists }
    \cup {ExampleStore}

CalcInit ==
    /\ data \in CalcStores
    /\ loading = FALSE
    /\ wasDataCleared = FALSE
    /\ slot = Absent
    /\ now = 0
    /\ nextId = 7
    /\ rejects = 0
    /\ pc = "idle"
    /\ ops = 0
    /\ last = NoOp
    /\ prev = NullData
    /\ prevSlot = slot
    /\ result = NoResult
    /\ sessions = NoSessions

\* calculatePortionSummary(portion, expenses) for a portion of the store and the
\* store's expenses
CallPortionSummary ==
    /\ \E i \in DOMAIN data.portions :
        /\ result' = calculatePortionSummary(data.portions[i], data.expenses)
        /\ last' = [op |-> "calculatePortionSummary", arg |-> data.portions[i],
                    error |-> NoError]
    /\ UNCHANGED <<data, loading, wasDataCleared, slot, now, nextId, pc, ops, rejects, prev,
                   prevSlot, sessions>>

\* calculatePeriodSummary(period, portions, expenses) for a period of the store
CallPeriodSummary ==
    /\ \E i \in DOMAIN data.periods :
        /\ result' = calculatePeriodSummary(data.periods[i], data.portions, data.expenses)
        /\ last' = [op |-> "calculatePeriodSummary", arg |-> data.periods[i],
                    error |-> NoError]
    /\ UNCHANGED <<data, loading, wasDataCleared, slot, now, nextId, pc, ops, rejects, prev,
                   prevSlot, sessions>>

\* getPortionSummaries(periodId, portions, expenses) for a period of the store
\* and for an id of no period
CallPortionSummaries ==
    /\ \E periodId \in PeriodArgs :
        /\ result' = getPortionSummaries(periodId, data.portions, data.expenses)
        /\ last' = [op |-> "getPortionSummaries", arg |-> periodId, error |-> NoError]
    /\ UNCHANGED <<data, loading, wasDataCleared, slot, now, nextId, pc, ops, rejects, prev,
                   prevSlot, sessions>>

CalcNext ==
    \/ CallPortionSummary
    \/ CallPeriodSummary
    \/ CallPortionSummaries

CalcSpec == CalcInit /\ [][CalcNext]_vars

-----------------------------------------------------------------------------
(* The expense list computed on stores drawn from bounded sets *)

\* what an expense of the list is booked on: a period, a portion, a day
DatedBookings == [periodId : {1, 4}, portionId : {2, 5}, date : {0, 1, 2}]

\* the lists of at most MaxExpenses dated expenses, with ids by position
DatedLists ==
    { [i \in DOMAIN bs |-> [id |-> 10 + i, periodId |-> bs[i].periodId,
                            portionId |-> bs[i].portionId, date |-> bs[i].date,
                            amount |-> 100]] :
        bs \in UNION {[1..n -> DatedBookings] : n \in 0..MaxExpenses} }

\* stores of two periods with a portion each; either period or none is active
ListStores ==
    { Spread([version |-> "v1", createdAt |-> 0, lastUsedAt |-> 0,
              periods |-> StoredStore.periods,
              portions |-> StoredStore.portions,
              expenses |-> es], a) :
        es \in DatedLists, a \in {[activePeriodId |-> 1], [activePeriodId |-> 4], << >>} }

ListInit ==
    /\ data \in ListStores
    /\ loading = FALSE
    /\ wasDataCleared = FALSE
    /\ slot = Absent
    /\ now = 0
    /\ nextId = 7
    /\ rejects = 0
    /\ pc = "idle"
    /\ ops = 0
    /\ last = NoOp
    /\ prev = data
    /\ prevSlot = slot
    /\ result = NoResult
    /\ sessions = NoSessions

\* getFilteredExpenses(filters) with each filter given or not
CallFilteredExpenses ==
    /\ \E filters \in [startDate : {1}, endDate : {1}, portionId : {2}]
                      \cup [startDate : {1}, endDate : {1}] \cup [startDate : {1}, portionId : {2}]
                      \cup [endDate : {1}, portionId : {2}] \cup [startDate : {0, 1}]
                      \cup [endDate : {1, 2}] \cup [portionId : {2, 5}] \cup {<< >>} :
        /\ result' = getFilteredExpenses(data, filters)
        /\ last' = [op |-> "getFilteredExpenses", arg |-> filters, error |-> NoError]
    /\ prev' = data
    /\ UNCHANGED <<data, loading, wasDataCleared, slot, now, nextId, pc, ops, rejects, prevSlot, sessions>>

\* the Expenses component renders its list: the category filter is untouched,
\* 'All categories' or a portion; each date filter is empty or a day
RenderExpenses ==
    /\ \E filterPortionId \in {EmptyString, AllCategories, 2},
          filterStartDate \in {EmptyString, 1}, filterEndDate \in {EmptyString, 1} :
        /\ result' = filteredExpenses(data, filterPortionId, filterStartDate, filterEndDate)
        /\ last' = [op |-> "Expenses",
                    arg |-> [filterPortionId |-> filterPortionId,
                             filterStartDate |-> filterStartDate,
                             filterEndDate |-> filterEndDate],
                    error |-> NoError]
    /\ prev' = data
    /\ UNCHANGED <<data, loading, wasDataCleared, slot, now, nextId, pc, ops, rejects, prevSlot, sessions>>

ListNext ==
    \/ CallFilteredExpenses
    \/ RenderExpenses

ListSpec == ListInit /\ [][ListNext]_vars

-----------------------------------------------------------------------------
(* The session driven through the components: what the user interface can issue *)

\* the values the hook derives from the store on every render
activePeriods(d) == SelectSeq(d.periods, LAMBDA p : p.id = Get(d, "activePeriodId"))
activePortions(d) == SelectSeq(d.portions, LAMBDA p : p.periodId = Get(d, "activePeriodId"))
activeExpenses(d) == SelectSeq(d.expenses, LAMBDA e : e.periodId = Get(d, "activePeriodId"))

\* data.periods.find(p => p.id === data.activePeriodId) found a period
HasActivePeriod(d) == Len(activePeriods(d)) > 0
activePeriod(d) == Head(activePeriods(d))

\* activePeriod ? calculatePeriodSummary(activePeriod, portions, expenses) : null
periodSummary(d) == calculatePeriodSummary(activePeriod(d), d.portions, d.expenses)

\* data.activePeriodId ? getPortionSummaries(activePeriodId, portions, expenses) : []
portionSummaries(d) ==
    IF Get(d, "activePeriodId") # Undefined
    THEN getPortionSummaries(d.activePeriodId, d.portions, d.expenses)
    ELSE <<>>

\* the first run, or a store emptied earlier
UiInit ==
    /\ data = NullData
    /\ loading = TRUE
    /\ wasDataCleared = FALSE
    /\ slot \in {Absent, saveDataToLocalStorage(createEmptyAppData(0), 0)}
    /\ now = 0
    /\ nextId = 7
    /\ rejects = 0
    /\ pc = "boot"
    /\ ops = 0
    /\ last = NoOp
    /\ prev = NullData
    /\ prevSlot = slot
    /\ result = NoResult
    /\ sessions = NoSessions

\* PeriodManager.handleSubmit, no period being edited: onAdd(period)
SubmitNewPeriod ==
    /\ Ready
    /\ \E incomeAmount \in Amounts :
        /\ SetData("addPeriod", nextId,
                   addPeriodUpdater(data, [id |-> nextId, incomeAmount |-> incomeAmount]))
        /\ nextId' = nextId + 1

\* PeriodManager.handleSubmit, editing the active period: onUpdate(activePeriod.id, fields)
SubmitEditedPeriod ==
    /\ Ready
    /\ HasActivePeriod(data)
    /\ \E incomeAmount \in Amounts :
        /\ SetData("updatePeriod", activePeriod(data).id,
                   updatePeriodUpdater(data, activePeriod(data).id,
                                       [incomeAmount |-> incomeAmount]))
        /\ UNCHANGED nextId

\* PeriodManager.handleDelete: onDelete(activePeriod.id)
DeleteActivePeriod ==
    /\ Ready
    /\ HasActivePeriod(data)
    /\ SetData("deletePeriod", activePeriod(data).id,
               deletePeriodUpdater(data, activePeriod(data).id))
    /\ UNCHANGED nextId

\* the period Select: onSetActive(id of one of the periods listed)
SelectPeriod ==
    /\ Ready
    /\ \E periodId \in Ids(data.periods) :
        /\ SetData("setActivePeriod", periodId, setActivePeriodUpdater(data, periodId))
        /\ UNCHANGED nextId

\* Portions.handleSubmit, no portion being edited: onAdd({periodId: activePeriodId, ...})
SubmitNewPortion ==
    /\ Ready
    /\ Get(data, "activePeriodId") # Undefined
    /\ \E budgetAmount \in Amounts :
        /\ SetData("addPortion", nextId,
                   addPortionUpdater(data, [id |-> nextId, periodId |-> data.activePeriodId,
                                            budgetAmount |-> budgetAmount]))
        /\ nextId' = nextId + 1

\* Portions.handleSubmit, editing a portion of the list: onUpdate(id, fields)
SubmitEditedPortion ==
    /\ Ready
    /\ Get(data, "activePeriodId") # Undefined
    /\ \E portionId \in Ids(activePortions(data)), budgetAmount \in Amounts :
        /\ SetData("updatePortion", portionId,
                   updatePortionUpdater(data, portionId, [budgetAmount |-> budgetAmount]))
        /\ UNCHANGED nextId

\* Portions.handleDelete: onDelete(id of a portion of the list)
DeleteListedPortion ==
    /\ Ready
    /\ \E portionId \in Ids(activePortions(data)) :
        /\ SetData("deletePortion", portionId, deletePortionUpdater(data, portionId))
        /\ UNCHANGED nextId

\* Expenses.handleSubmit, no expense being edited:
\* onAdd({periodId: activePeriodId, portionId: formData.portionId, ...})
SubmitNewExpense ==
    /\ Ready
    /\ Get(data, "activePeriodId") # Undefined
    /\ \E portionId \in Ids(activePortions(data)), amount \in Amounts :
        /\ SetData("addExpense", nextId,
                   addExpenseUpdater(data, [id |-> nextId, periodId |-> data.activePeriodId,
                                            portionId |-> portionId,
                                            date |-> DateOf(now), amount |-> amount]))
        /\ nextId' = nextId + 1

\* Expenses.handleSubmit, editing an expense of the list:
\* onUpdate(id, {portionId: formData.portionId, date, description, amount})
SubmitEditedExpense ==
    /\ Ready
    /\ Get(data, "activePeriodId") # Undefined
    /\ \E expenseId \in Ids(activeExpenses(data)), portionId \in Ids(activePortions(data)),
          amount \in Amounts :
        /\ SetData("updateExpense", expenseId,
                   updateExpenseUpdater(data, expenseId,
                                        [portionId |-> portionId, date |-> DateOf(now),
                                         amount |-> amount]))
        /\ UNCHANGED nextId

\* Expenses.handleDelete: onDelete(id of an expense of the list)
DeleteListedExpense ==
    /\ Ready
    /\ \E expenseId \in Ids(activeExpenses(data)) :
        /\ SetData("deleteExpense", expenseId, deleteExpenseUpdater(data, expenseId))
        /\ UNCHANGED nextId

UiNext ==
    \/ Load
    \/ Persist
    \/ SubmitNewPeriod
    \/ SubmitEditedPeriod
    \/ DeleteActivePeriod
    \/ SelectPeriod
    \/ SubmitNewPortion
    \/ SubmitEditedPortion
    \/ DeleteListedPortion
    \/ SubmitNewExpense
    \/ SubmitEditedExpense
    \/ DeleteListedExpense

UiSpec == UiInit /\ [][UiNext]_vars

-----------------------------------------------------------------------------
(* The facade with setActivePeriod given ids of existing periods only *)

FacadeNext ==
    \/ Load
    \/ Persist
    \/ SelectPeriod
    \/ addPeriod
    \/ updatePeriod
    \/ deletePeriod
    \/ addPortion
    \/ updatePortion
    \/ deletePortion
    \/ addExpense
    \/ updateExpense
    \/ deleteExpense
    \/ clearData

FacadeSpec == UiInit /\ [][FacadeNext]_vars

-----------------------------------------------------------------------------
(* Two sessions of the hook open on the same slot (two tabs) *)

SessionIds == {"A", "B"}

\* a session before its mount effect; the other fields are history: the clock
\* values of its load, its last mutation and its last persist, its last
\* mutation, the periods it loaded and the periods it deleted
NewSession ==
    [data |-> NullData, pc |-> "boot", loadedAt |-> 0, mutatedAt |-> 0, persistedAt |-> 0,
     change |-> NoOp, loaded |-> {}, deleted |-> {}]

TwoInit ==
    /\ data = NullData
    /\ loading = TRUE
    /\ wasDataCleared = FALSE
    /\ slot \in {Absent, saveDataToLocalStorage(StoredStore, 0)}
    /\ now = 0
    /\ nextId = 7
    /\ rejects = 0
    /\ pc = "boot"
    /\ ops = 0
    /\ last = NoOp
    /\ prev = NullData
    /\ prevSlot = slot
    /\ result = NoResult
    /\ sessions = [clock |-> 0, A |-> NewSession, B |-> NewSession]

\* what a step of session s leaves alone
SessionFrame == UNCHANGED <<data, loading, wasDataCleared, now, pc, rejects, prev, result>>

\* the mount effect of session s: loadDataFromLocalStorage(); setData
SessionLoad(s) ==
    /\ sessions[s].pc = "boot"
    /\ LET r == loadDataFromLocalStorage(slot, now, nextId, TRUE, TRUE)
           t == sessions.clock + 1
       IN /\ slot' = r.slot
          /\ nextId' = r.ids
          /\ sessions' = [sessions EXCEPT !.clock = t,
                             ![s] = [@ EXCEPT !.data = r.data, !.pc = "effect", !.loadedAt = t,
                                          !.loaded = Ids(r.data.periods)]]
    /\ last' = [op |-> "load", arg |-> s, error |-> NoError]
    /\ prevSlot' = slot
    /\ UNCHANGED ops
    /\ SessionFrame

\* a persist effect that leaves the slot alone when another session has
\* written it since this session loaded
SessionPersistUnlessStale(s) ==
    /\ sessions[s].pc = "effect"
    /\ LET t == sessions.clock + 1
       IN sessions' = [sessions EXCEPT !.clock = t,
                          ![s] = [@ EXCEPT !.data = Stamp(@, now), !.pc = "idle",
                                           !.persistedAt = t]]
    /\ slot' = IF \E o \in SessionIds \ {s} : sessions[o].persistedAt > sessions[s].loadedAt
                /\ sessions[o].mutatedAt > 0
               THEN slot
               ELSE saveDataToLocalStorage(sessions[s].data, now)
    /\ last' = [op |-> "persist", arg |-> s, error |-> NoError]
    /\ prevSlot' = slot
    /\ UNCHANGED <<nextId, ops>>
    /\ SessionFrame

\* the persist effect of session s: saveDataToLocalStorage(data)
SessionPersist(s) ==
    /\ sessions[s].pc = "effect"
    /\ LET t == sessions.clock + 1
       IN sessions' = [sessions EXCEPT !.clock = t,
                          ![s] = [@ EXCEPT !.data = Stamp(@, now), !.pc = "idle",
                                           !.persistedAt = t]]
    /\ slot' = saveDataToLocalStorage(sessions[s].data, now)
    /\ last' = [op |-> "persist", arg |-> s, error |-> NoError]
    /\ prevSlot' = slot
    /\ UNCHANGED <<nextId, ops>>
    /\ SessionFrame

\* a mutation of session s: setData(prev => ...) on the store the session holds
SessionMutate(s, op, arg, newData) ==
    /\ sessions[s].pc = "idle"
    /\ ops < MaxOps
    /\ ops' = ops + 1
    /\ LET t == sessions.clock + 1
       IN sessions' = [sessions EXCEPT !.clock = t,
                          ![s] = [@ EXCEPT !.data = newData, !.pc = "effect", !.mutatedAt = t,
                                           !.change = [op |-> op, arg |-> arg, error |-> NoError],
                                           !.deleted = IF op = "deletePeriod"
                                                       THEN @ \cup {arg} ELSE @]]
    /\ last' = [op |-> op, arg |-> s, error |-> NoError]
    /\ prevSlot' = slot
    /\ UNCHANGED slot
    /\ SessionFrame

SessionAddPeriod(s) ==
    /\ sessions[s].pc = "idle"
    /\ SessionMutate(s, "addPeriod", nextId,
                     addPeriodUpdater(sessions[s].data, [id |-> nextId, incomeAmount |-> 20000]))
    /\ nextId' = nextId + 1

SessionAddExpense(s) ==
    /\ sessions[s].pc = "idle"
    /\ \E i \in {1} \cap DOMAIN sessions[s].data.portions :
        LET portion == sessions[s].data.portions[i]
        IN SessionMutate(s, "addExpense", nextId,
                         addExpenseUpdater(sessions[s].data,
                             [id |-> nextId, periodId |-> portion.periodId,
                              portionId |-> portion.id, date |-> DateOf(now),
                              amount |-> 20000]))
    /\ nextId' = nextId + 1

SessionDeletePeriod(s) ==
    /\ sessions[s].pc = "idle"
    /\ \E periodId \in Ids(sessions[s].data.periods) :
        SessionMutate(s, "deletePeriod", periodId,
                      deletePeriodUpdater(sessions[s].data, periodId))
    /\ UNCHANGED nextId

TwoNext ==
    \/ \E s \in SessionIds : SessionLoad(s)
    \/ \E s \in SessionIds : SessionPersist(s)
    \/ \E s \in SessionIds : SessionAddPeriod(s)
    \/ \E s \in SessionIds : SessionAddExpense(s)
    \/ \E s \in SessionIds : SessionDeletePeriod(s)

TwoSpec == TwoInit /\ [][TwoNext]_vars

-----------------------------------------------------------------------------
(* Vocabulary of the properties *)

\* data.activePeriodId, undefined when unset
Active(s) == Get(s, "activePeriodId")

\* the subsequence of xs at the indices in I, in the order of xs
Keeping(xs, I) ==
    LET F[n \in 0..Len(xs)] ==
            IF n = 0 THEN <<>>
            ELSE IF n \in I THEN Append(F[n - 1], xs[n]) ELSE F[n - 1]
    IN F[Len(xs)]

\* field k is set in object o
Present(o, k) == k \in DOMAIN o /\ (k = "activePeriodId" => o[k] # Undefined)

\* objects a and b agree on field k
SameField(a, b, k) == Present(a, k) = Present(b, k) /\ (Present(a, k) => a[k] = b[k])

StoreKeys == {"version", "createdAt", "lastUsedAt", "periods", "portions", "expenses", "activePeriodId"}

\* the same periods, portions, expenses and activePeriodId
SameContent(a, b) ==
    \A k \in {"periods", "portions", "expenses", "activePeriodId"} : SameField(a, b, k)

Mutations ==
    {"setActivePeriod", "addPeriod", "updatePeriod", "deletePeriod", "addPortion", "updatePortion",
     "deletePortion", "addExpense", "updateExpense", "deleteExpense", "importData", "clearData",
     "resetData"}

\* the last facade mutation and its persist step have completed without a rejected write
Persisted == pc = "idle" /\ last.op \in Mutations /\ last.error = NoError

-----------------------------------------------------------------------------
(* Properties *)

\* C1: deletePeriod(id) removes the period with that id, every portion and every
\* expense whose periodId is id, and keeps every other period, portion and
\* expense, unchanged and in the same relative order.
C1_DeletePeriodCascade ==
    last.op = "deletePeriod" =>
        /\ data.periods = Keeping(prev.periods,
                {i \in DOMAIN prev.periods : prev.periods[i].id # last.arg})
        /\ data.portions = Keeping(prev.portions,
                {i \in DOMAIN prev.portions : prev.portions[i].periodId # last.arg})
        /\ data.expenses = Keeping(prev.expenses,
                {i \in DOMAIN prev.expenses : prev.expenses[i].periodId # last.arg})

\* a period with a portion and an expense was deleted while another period,
\* with a portion and an expense of its own, stays
C1_Witness ==
    /\ last.op = "deletePeriod"
    /\ Len(data.periods) > 0 /\ Len(data.periods) < Len(prev.periods)
    /\ Len(data.portions) > 0 /\ Len(data.portions) < Len(prev.portions)
    /\ Len(data.expenses) > 0 /\ Len(data.expenses) < Len(prev.expenses)

\* C2: deletePortion(id) removes the portion with that id and every expense whose
\* portionId is id, and leaves periods, activePeriodId, the other portions and
\* the expenses of other portions unchanged.
C2_DeletePortionCascade ==
    last.op = "deletePortion" =>
        /\ data.portions = Keeping(prev.portions,
                {i \in DOMAIN prev.portions : prev.portions[i].id # last.arg})
        /\ data.expenses = Keeping(prev.expenses,
                {i \in DOMAIN prev.expenses : prev.expenses[i].portionId # last.arg})
        /\ data.periods = prev.periods
        /\ Active(data) = Active(prev)

\* a portion with an expense was deleted while a sibling portion with an expense stays
C2_Witness ==
    /\ last.op = "deletePortion"
    /\ Len(data.portions) > 0 /\ Len(data.portions) < Len(prev.portions)
    /\ Len(data.expenses) > 0 /\ Len(data.expenses) < Len(prev.expenses)
    /\ \E i \in DOMAIN data.expenses, j \in DOMAIN prev.portions :
          /\ prev.portions[j].id = last.arg
          /\ data.expenses[i].periodId = prev.portions[j].periodId

\* C3: in every reachable state every portion's periodId is the id of a period of
\* the store, and every expense's periodId and portionId are the ids of a period
\* and of a portion of the store.
C3_ReferentialIntegrity ==
    ~loading =>
        /\ \A i \in DOMAIN data.portions : data.portions[i].periodId \in Ids(data.periods)
        /\ \A i \in DOMAIN data.expenses :
              /\ data.expenses[i].periodId \in Ids(data.periods)
              /\ data.expenses[i].portionId \in Ids(data.portions)

\* C4: in every reachable state activePeriodId is unset or the id of a period in periods.
C4_ActivePeriodExists ==
    ~loading => (Active(data) = Undefined \/ Active(data) \in Ids(data.periods))

\* C5: after deletePeriod(id) with id the active period, activePeriodId is the id
\* of the first period remaining, or unset when none remains.
C5_DeleteActivePeriod ==
    (last.op = "deletePeriod" /\ last.arg = Active(prev)) =>
        LET remaining == Keeping(prev.periods,
                {i \in DOMAIN prev.periods : prev.periods[i].id # last.arg})
        IN Active(data) = IF remaining = <<>> THEN Undefined ELSE remaining[1].id

\* the active period was deleted and two periods remain
C5_Witness ==
    /\ last.op = "deletePeriod"
    /\ last.arg = Active(prev)
    /\ last.arg \in Ids(prev.periods)
    /\ Len(data.periods) >= 2

\* C6: deletePeriod(id) with id not the active period leaves activePeriodId as it was.
C6_DeleteOtherKeepsActive ==
    (last.op = "deletePeriod" /\ last.arg # Active(prev)) => Active(data) = Active(prev)

\* C7: after deletePeriod(id) no expense refers to a portion that belonged to the
\* deleted period.
C7_NoExpenseOfDeletedPortions ==
    last.op = "deletePeriod" =>
        \A i \in DOMAIN data.expenses :
            data.expenses[i].portionId \notin
                {prev.portions[j].id :
                    j \in {k \in DOMAIN prev.portions : prev.portions[k].periodId = last.arg}}

\* the ids of a collection, position by position
IdSeq(xs) == [i \in DOMAIN xs |-> xs[i].id]

\* C8: no operation changes the id of an existing period, portion or expense, and
\* in every reachable state the ids within periods, within portions and within
\* expenses are pairwise distinct.
C8_IdsImmutableAndUnique ==
    ~loading =>
        /\ Cardinality(Ids(data.periods)) = Len(data.periods)
        /\ Cardinality(Ids(data.portions)) = Len(data.portions)
        /\ Cardinality(Ids(data.expenses)) = Len(data.expenses)
        /\ last.op \in {"updatePeriod", "updatePortion", "updateExpense", "setActivePeriod"} =>
              /\ IdSeq(data.periods) = IdSeq(prev.periods)
              /\ IdSeq(data.portions) = IdSeq(prev.portions)
              /\ IdSeq(data.expenses) = IdSeq(prev.expenses)

\* the times at which the next session may load the slot
LaterLoads == {now, now + ONE_YEAR_S, now + ONE_YEAR_S + 1}

\* C9 as amended: once a facade mutation and its persist step have completed
\* with the writes accepted, the slot holds a serialization equal to the
\* in-memory store, and a load by a new session returns the same periods,
\* portions, expenses and activePeriodId provided the store is not expired
\* (createdAt more than a year old) at that load.
C9_PersistedAfterMutation ==
    Persisted =>
        /\ Parses(slot)
        /\ \A k \in StoreKeys : SameField(JSONparse(slot), data, k)
        /\ \A t \in LaterLoads :
              ~isDataExpired(data, t) =>
                  LET r == loadDataFromLocalStorage(slot, t, nextId, TRUE, TRUE)
                  IN ~r.threw /\ ~r.wasCleared /\ SameContent(r.data, data)

\* a mutation of a non-empty store has been persisted
C9_Witness ==
    /\ Persisted
    /\ last.op = "addExpense"
    /\ Len(data.periods) > 0
    /\ data # prev

\* C9 as stated: ... and a load by a new session returns the same periods,
\* portions, expenses and activePeriodId.
C9_LoadReturnsSame ==
    Persisted =>
        /\ Parses(slot)
        /\ \A k \in StoreKeys : SameField(JSONparse(slot), data, k)
        /\ LET r == loadDataFromLocalStorage(slot, now, nextId, TRUE, TRUE)
           IN ~r.threw /\ SameContent(r.data, data)

\* the text given to importData cannot be imported
BadImport(text) ==
    \/ ~Parses(text)
    \/ \E k \in {"version", "periods", "portions", "expenses"} : ~Present(JSONparse(text), k)

\* C10: when importData(json) fails (unparsable text or a required top-level
\* field missing) it raises an error and the in-memory store and the slot are
\* what they were before the call.
C10_FailedImportChangesNothing ==
    (last.op = "importData" /\ BadImport(last.arg)) =>
        /\ last.error = InvalidJSON
        /\ data = prev
        /\ slot = prevSlot

\* an import of a text lacking a required field failed on a persisted, non-empty store
C10_Witness ==
    /\ last.op = "importData"
    /\ Parses(last.arg)
    /\ BadImport(last.arg)
    /\ Len(data.periods) > 0
    /\ Parses(slot)

\* the text cannot be imported: it is bad, or its version is the empty string
Unimportable(text) == BadImport(text) \/ JSONparse(text).version = ""

\* C11 as amended: importDataFromJson(json) fails with an error when the text is
\* unparsable or any of version, periods, portions, expenses is absent or holds
\* a falsy value (an empty version); otherwise it succeeds and returns the
\* parsed store with only lastUsedAt changed (set to now); in neither case
\* does it write the slot.
C11_ImportValidatesTruthy ==
    last.op = "import" =>
        /\ last.error = (IF Unimportable(last.arg) THEN InvalidJSON ELSE NoError)
        /\ result.threw = Unimportable(last.arg)
        /\ ~result.threw =>
              /\ result.data.lastUsedAt = last.at
              /\ \A k \in StoreKeys \ {"lastUsedAt"} :
                    SameField(result.data, JSONparse(last.arg), k)
        /\ slot = prevSlot

\* a store with a period was imported, later than it was last used, while the
\* slot holds another store
C11_Witness ==
    /\ last.op = "import"
    /\ ~result.threw
    /\ Len(result.data.periods) > 0
    /\ result.data.lastUsedAt # JSONparse(last.arg).lastUsedAt
    /\ Parses(slot)

\* C11 as stated: importDataFromJson(json) fails when the text is unparsable or
\* one of version, periods, portions, expenses is absent, and succeeds whenever
\* the text parses and all four are present, returning the parsed store with
\* only lastUsedAt changed; it never writes the slot.
C11_ImportSucceedsWhenPresent ==
    last.op = "import" =>
        /\ last.error = (IF BadImport(last.arg) THEN InvalidJSON ELSE NoError)
        /\ result.threw = BadImport(last.arg)
        /\ ~result.threw =>
              /\ result.data.lastUsedAt = last.at
              /\ \A k \in StoreKeys \ {"lastUsedAt"} :
                    SameField(result.data, JSONparse(last.arg), k)
        /\ slot = prevSlot

Collections == {"periods", "portions", "expenses"}

\* a store without periods, portions, expenses and active period
EmptyStore(d) ==
    /\ Collections \subseteq DOMAIN d
    /\ d.periods = <<>> /\ d.portions = <<>> /\ d.expenses = <<>>
    /\ Active(d) = Undefined

\* one period, which is active, five portions and three expenses, all of that
\* period, each expense under one of the portions
SeedShaped(d) ==
    /\ Collections \subseteq DOMAIN d
    /\ Len(d.periods) = 1 /\ Len(d.portions) = 5 /\ Len(d.expenses) = 3
    /\ Active(d) = d.periods[1].id
    /\ \A i \in DOMAIN d.portions : d.portions[i].periodId = d.periods[1].id
    /\ \A i \in DOMAIN d.expenses :
          /\ d.expenses[i].periodId = d.periods[1].id
          /\ d.expenses[i].portionId \in Ids(d.portions)

\* the slot holds a serialization of store d
SlotHolds(d) == Parses(slot) /\ \A k \in StoreKeys : SameField(JSONparse(slot), d, k)

\* the slot content read by the last call is a structure created more than a
\* year before the call
StoredExpired ==
    /\ Parses(prevSlot)
    /\ "createdAt" \in DOMAIN JSONparse(prevSlot)
    /\ last.at - JSONparse(prevSlot).createdAt > ONE_YEAR_S

\* C13: when the slot holds a parseable store created more than one year (365
\* days) before, load() (its write accepted) returns an empty store with
\* wasCleared = true and the slot afterwards holds that empty store.
C13_ExpiredStoreCleared ==
    (last.op = "load" /\ StoredExpired /\ result.rejected = 0) =>
        /\ ~result.threw
        /\ result.wasCleared
        /\ EmptyStore(result.data)
        /\ SlotHolds(result.data)

\* a store with periods, created a year and a second before, was loaded
C13_Witness ==
    /\ last.op = "load"
    /\ StoredExpired
    /\ last.at - JSONparse(prevSlot).createdAt = ONE_YEAR_S + 1
    /\ "periods" \in DOMAIN JSONparse(prevSlot)
    /\ Len(JSONparse(prevSlot).periods) > 0
    /\ result.wasCleared

\* C14: when the slot is absent, a load() that returns returns wasCleared =
\* false and a seed store of one active period, five portions and three
\* expenses, all of that period, each expense under one of the five portions;
\* the slot afterwards holds that seed store.
C14_AbsentSlotSeeded ==
    (last.op = "load" /\ prevSlot = Absent /\ ~result.threw) =>
        /\ ~result.wasCleared
        /\ SeedShaped(result.data)
        /\ SlotHolds(result.data)

\* the absent slot was loaded
C14_Witness ==
    /\ last.op = "load"
    /\ prevSlot = Absent
    /\ ~result.threw
    /\ result.rejected = 0
    /\ Parses(slot)

\* C15: when the slot is present but unparsable, or parses to a structure
\* lacking one of periods, portions, expenses, a load() that returns returns
\* freshly generated seed data with wasCleared = false and the slot afterwards
\* holds that seed data.
C15_CorruptSlotReseeded ==
    (/\ last.op = "load"
     /\ prevSlot # Absent
     /\ ~Parses(prevSlot) \/ ~(Collections \subseteq DOMAIN JSONparse(prevSlot))
     /\ ~result.threw) =>
        /\ ~result.wasCleared
        /\ SeedShaped(result.data)
        /\ SlotHolds(result.data)

\* C16: when the slot holds a parseable store with periods, portions and
\* expenses that is not expired, load() (its write accepted) returns that
\* store with wasCleared = false, with only lastUsedAt refreshed, and the slot
\* afterwards holds the returned store.
C16_UnexpiredStoreReturned ==
    (/\ last.op = "load"
     /\ Parses(prevSlot)
     /\ Collections \subseteq DOMAIN JSONparse(prevSlot)
     /\ ~StoredExpired
     /\ result.rejected = 0) =>
        /\ ~result.threw
        /\ ~result.wasCleared
        /\ \A k \in StoreKeys \ {"lastUsedAt"} : SameField(result.data, JSONparse(prevSlot), k)
        /\ result.data.lastUsedAt = last.at
        /\ SlotHolds(result.data)

\* a store with expenses was loaded on the day it became one year old
C16_Witness ==
    /\ last.op = "load"
    /\ Parses(prevSlot)
    /\ Collections \subseteq DOMAIN JSONparse(prevSlot)
    /\ "createdAt" \in DOMAIN JSONparse(prevSlot)
    /\ last.at - JSONparse(prevSlot).createdAt = ONE_YEAR_S
    /\ result.rejected = 0
    /\ Len(result.data.expenses) > 0
    /\ result.data.lastUsedAt # JSONparse(prevSlot).lastUsedAt

\* C17: every store returned by load() was created at most one year before the
\* time it is returned, whatever the slot held.
C17_ReturnedStoreWithinOneYear ==
    (last.op = "load" /\ ~result.threw) =>
        /\ "createdAt" \in DOMAIN result.data
        /\ last.at - result.data.createdAt <= ONE_YEAR_S

\* C18: when the environment rejects the write, saveDataToLocalStorage(store)
\* raises an error to its caller and the slot keeps the content it had.
C18_RejectedSaveRaises ==
    (last.op = "save" /\ result.rejected = 1) =>
        /\ last.error = StorageFull
        /\ slot = prevSlot

\* the write of a save over a stored store was rejected
C18_Witness ==
    /\ last.op = "save"
    /\ result.rejected = 1
    /\ Parses(prevSlot)
    /\ last.arg # JSONparse(prevSlot)

\* C19: after clearData() (its write accepted) the in-memory store has no
\* periods, portions, expenses and active period, the slot holds that same
\* empty store, and a following load(), at once or up to a year later, returns
\* an empty store with wasCleared = false; after resetData() the in-memory
\* store is the seed store.
C19_ClearDataLeavesEmptyStore ==
    /\ (last.op = "clearData" /\ last.error = NoError) =>
          /\ EmptyStore(data)
          /\ SlotHolds(data)
          /\ \A t \in {now, now + ONE_YEAR_S} :
                LET r == loadDataFromLocalStorage(slot, t, nextId, TRUE, TRUE)
                IN ~r.threw /\ ~r.wasCleared /\ EmptyStore(r.data)
    /\ (last.op = "resetData" /\ last.error = NoError) => SeedShaped(data)

\* a store with periods and expenses has been cleared and the empty store persisted
C19_Witness ==
    /\ last.op = "clearData"
    /\ last.error = NoError
    /\ pc = "idle"
    /\ Len(prev.periods) > 0
    /\ Len(prev.expenses) > 0
    /\ prevSlot # slot

\* the sum of the amounts of the expenses of xs at the indices in I
RECURSIVE SumOver(_, _)
SumOver(xs, I) ==
    IF I = {} THEN 0
    ELSE LET i == CHOOSE j \in I : TRUE IN xs[i].amount + SumOver(xs, I \ {i})

\* a / b = c / d for naturals a, c and positive b, d, by their continued
\* fractions (no product is formed, TLC's integers have 32 bits)
RECURSIVE SameRatio(_, _, _, _)
SameRatio(a, b, c, d) ==
    /\ a \div b = c \div d
    /\ IF a % b = 0 \/ c % d = 0 THEN a % b = c % d
       ELSE SameRatio(b, a % b, d, c % d)

RECURSIVE SumBudgetsOver(_, _)
SumBudgetsOver(xs, I) ==
    IF I = {} THEN 0
    ELSE LET i == CHOOSE j \in I : TRUE IN xs[i].budgetAmount + SumBudgetsOver(xs, I \ {i})

\* C21: calculatePeriodSummary yields totalIncome = the period's incomeAmount,
\* totalBudgeted = the sum of budgetAmount over exactly the portions of the
\* period, totalExpenses = the sum of amount over exactly the expenses of the
\* period whatever their portionId, remainingBudget, remainingIncome and
\* unallocatedIncome as their differences and isOverBudget = (totalExpenses >
\* totalBudgeted); for the example it yields 7000000, 2950000 and false.
C21_PeriodSummary ==
    last.op = "calculatePeriodSummary" =>
        LET I == last.arg.incomeAmount
            B == SumBudgetsOver(data.portions,
                     {i \in DOMAIN data.portions : data.portions[i].periodId = last.arg.id})
            E == SumOver(data.expenses,
                     {i \in DOMAIN data.expenses : data.expenses[i].periodId = last.arg.id})
        IN /\ result.totalIncome = I
           /\ result.totalBudgeted = B
           /\ result.totalExpenses = E
           /\ result.remainingBudget = B - E
           /\ result.remainingIncome = I - E
           /\ result.unallocatedIncome = I - B
           /\ result.isOverBudget = (E > B)
           /\ data = ExampleStore =>
                 /\ result.unallocatedIncome = 7000000
                 /\ result.remainingBudget = 2950000
                 /\ result.isOverBudget = FALSE

\* a period is over budget counting an expense booked under no portion of it
C21_Witness ==
    /\ last.op = "calculatePeriodSummary"
    /\ result.isOverBudget
    /\ result.totalBudgeted > 0
    /\ \E i \in DOMAIN data.expenses :
          /\ data.expenses[i].periodId = last.arg.id
          /\ data.expenses[i].portionId = NoSuchId

\* C22: getPortionSummaries(periodId, portions, expenses) returns one summary
\* per portion of the period and none for another portion, in the order of
\* those portions in the store, and each summary's used counts only the
\* expenses of that period.
C22_PortionSummariesForPeriod ==
    last.op = "getPortionSummaries" =>
        /\ [i \in DOMAIN result |-> result[i].portion] =
              Keeping(data.portions,
                      {i \in DOMAIN data.portions : data.portions[i].periodId = last.arg})
        /\ \A i \in DOMAIN result :
              result[i].used =
                  SumOver(data.expenses,
                          {j \in DOMAIN data.expenses :
                              /\ data.expenses[j].portionId = result[i].portion.id
                              /\ data.expenses[j].periodId = last.arg})

\* two portions of a period, with a portion of the other period between them
\* in the store, were summarized while an expense of the other period is
\* booked under one of them
C22_Witness ==
    /\ last.op = "getPortionSummaries"
    /\ Len(result) = 2
    /\ Len(data.portions) = 3
    /\ data.portions[2].periodId # last.arg
    /\ \E j \in DOMAIN data.expenses :
          /\ data.expenses[j].portionId = result[1].portion.id
          /\ data.expenses[j].periodId # last.arg

\* the position in the store of the expense with the id of e
StorePosition(e) == CHOOSE i \in DOMAIN data.expenses : data.expenses[i].id = e.id

\* C23: getFilteredExpenses returns exactly the expenses of the active period
\* whose date d satisfies startDate <= d when startDate is given, d <= endDate
\* when endDate is given, and whose portionId is the portion filter when
\* given; ordered by date descending, expenses of equal date in store order;
\* the store's expenses are not changed by the call.
C23_FilteredExpenses ==
    last.op = "getFilteredExpenses" =>
        LET f == last.arg
            M == {i \in DOMAIN data.expenses :
                    /\ data.expenses[i].periodId = Active(data)
                    /\ "startDate" \in DOMAIN f => f.startDate <= data.expenses[i].date
                    /\ "endDate" \in DOMAIN f => data.expenses[i].date <= f.endDate
                    /\ "portionId" \in DOMAIN f => data.expenses[i].portionId = f.portionId}
        IN /\ Len(result) = Cardinality(M)
           /\ {result[k] : k \in DOMAIN result} = {data.expenses[i] : i \in M}
           /\ \A k \in 1..(Len(result) - 1) :
                 \/ result[k].date > result[k + 1].date
                 \/ /\ result[k].date = result[k + 1].date
                    /\ StorePosition(result[k]) < StorePosition(result[k + 1])
           /\ data.expenses = prev.expenses

\* a list under a start date was returned in an order other than the store's
C23_Witness ==
    /\ last.op = "getFilteredExpenses"
    /\ "startDate" \in DOMAIN last.arg
    /\ Len(result) >= 2
    /\ StorePosition(result[1]) > StorePosition(result[2])

\* C27: with 'All categories' chosen in the category filter the list is the
\* one shown when no category filter has been chosen, under the same date
\* filters.
C27_AllCategoriesShowsAll ==
    (last.op = "Expenses" /\ last.arg.filterPortionId = AllCategories) =>
        result = filteredExpenses(data, EmptyString, last.arg.filterStartDate,
                                  last.arg.filterEndDate)

\* C24: addPeriod(fields) on a loaded store appends to the end of periods one
\* new period carrying the given fields and an id no existing period has,
\* makes it the active period, and leaves the existing periods, the portions
\* and the expenses unchanged.
C24_AddPeriodAppends ==
    last.op = "addPeriod" =>
        LET n == Len(prev.periods)
        IN /\ Len(data.periods) = n + 1
           /\ SubSeq(data.periods, 1, n) = prev.periods
           /\ data.periods[n + 1].id = last.arg
           /\ data.periods[n + 1].id \notin Ids(prev.periods)
           /\ data.periods[n + 1].incomeAmount \in Amounts
           /\ DOMAIN data.periods[n + 1] = {"id", "incomeAmount"}
           /\ Active(data) = data.periods[n + 1].id
           /\ data.portions = prev.portions
           /\ data.expenses = prev.expenses

\* a period was added to a store that has periods, portions and expenses and
\* another active period
C24_Witness ==
    /\ last.op = "addPeriod"
    /\ Len(prev.periods) > 0
    /\ Len(prev.expenses) > 0
    /\ Active(prev) \in Ids(prev.periods)
    /\ Active(data) # Active(prev)

\* session a persisted a mutation after session b had loaded, then b made a
\* mutation on the store it holds and has just persisted it
OverwrittenBy(a, b) ==
    /\ sessions[b].loadedAt > 0
    /\ sessions[a].mutatedAt > 0
    /\ sessions[b].loadedAt < sessions[a].persistedAt
    /\ sessions[a].mutatedAt < sessions[a].persistedAt
    /\ sessions[a].persistedAt < sessions[b].mutatedAt
    /\ sessions[b].mutatedAt < sessions[b].persistedAt
    /\ sessions[b].persistedAt = sessions.clock

\* store d shows the last change of session a, a change that session b has
\* not made itself: the period or expense a added, or the absence of a period
\* that b loaded and a deleted
HasChangeOf(a, b, d) ==
    LET c == sessions[a].change
    IN \/ c.op = "addPeriod" /\ c.arg \in Ids(d.periods)
       \/ c.op = "addExpense" /\ c.arg \in Ids(d.expenses)
       \/ /\ c.op = "deletePeriod"
          /\ c.arg \in sessions[b].loaded \ sessions[b].deleted
          /\ c.arg \notin Ids(d.periods)

\* C25: with two sessions on the same slot there is no merge: when session a
\* has mutated and persisted, and then session b, holding the store it loaded
\* before, mutates and persists, the slot equals b's in-memory store and does
\* not contain a's change, and a later load returns b's store.
C25_LastWriteWins ==
    \A a, b \in SessionIds :
        (a # b /\ OverwrittenBy(a, b)) =>
            /\ SlotHolds(sessions[b].data)
            /\ ~HasChangeOf(a, b, JSONparse(slot))
            /\ LET r == loadDataFromLocalStorage(slot, now, nextId, TRUE, TRUE)
               IN ~r.threw /\ ~r.wasCleared /\ SameContent(r.data, sessions[b].data)

\* a period added and persisted by session A has been overwritten by session
\* B's persist of an expense added to the store B loaded before
C25_Witness ==
    /\ OverwrittenBy("A", "B")
    /\ sessions.A.change.op = "addPeriod"
    /\ sessions.B.change.op = "addExpense"
    /\ sessions.A.change.arg \in Ids(sessions.A.data.periods)
    /\ Len(sessions.B.data.periods) > 0

\* C26: when the slot holds a parseable, unexpired store, load() never reseeds,
\* whichever of its writes are rejected: either it returns the stored periods,
\* portions and expenses, or it raises an error and the slot is unchanged.
C26_RejectedWritesNeverReseed ==
    (/\ last.op = "load"
     /\ Parses(prevSlot)
     /\ Collections \subseteq DOMAIN JSONparse(prevSlot)
     /\ ~StoredExpired) =>
        \/ /\ ~result.threw
           /\ \A k \in Collections : result.data[k] = JSONparse(prevSlot)[k]
        \/ /\ result.threw
           /\ slot = prevSlot

\* sum of used over a list of portion summaries
SumUsed(xs) ==
    LET F[n \in 0..Len(xs)] == IF n = 0 THEN 0 ELSE F[n - 1] + xs[n].used
    IN F[Len(xs)]

\* C28: in every state reached from the seeded or the empty store through the
\* operations as the components issue them, the sum of used over the active
\* period's portion summaries equals the period summary's totalExpenses.
C28_PortionsAccountForPeriodTotal ==
    (data # NullData /\ HasActivePeriod(data)) =>
        SumUsed(portionSummaries(data)) = periodSummary(data).totalExpenses

\* a portion with expenses was deleted while other expenses of the period remain
C28_Witness ==
    /\ pc = "idle"
    /\ last.op = "deletePortion"
    /\ HasActivePeriod(data)
    /\ Len(prev.expenses) > Len(data.expenses)
    /\ periodSummary(data).totalExpenses > 0

\* C29: in every state reached from the seeded or the empty store by addPeriod,
\* updatePeriod, deletePeriod, the portion and expense operations, clearData and
\* setActivePeriod on existing periods, activePeriodId is the id of an existing
\* period when there are periods and is unset when there are none.
C29_ActivePeriodExists ==
    data # NullData =>
        IF Len(data.periods) > 0
        THEN Get(data, "activePeriodId") \in Ids(data.periods)
        ELSE ~Present(data, "activePeriodId")

\* the operations on the active period and on single periods, portions and expenses
EntityOperations ==
    {"setActivePeriod", "addPeriod", "updatePeriod", "deletePeriod", "addPortion", "updatePortion",
     "deletePortion", "addExpense", "updateExpense", "deleteExpense"}

\* the session's load found a store with its collections and a creation time in the slot
LoadedStoredStore ==
    /\ last.op = "load"
    /\ pc \in {"effect", "idle"}
    /\ Parses(prevSlot)
    /\ Collections \cup {"createdAt"} \subseteq DOMAIN JSONparse(prevSlot)

\* C30: createdAt is left unchanged by setActivePeriod, by every add, update
\* and delete of a period, portion or expense, by the save that follows, and by
\* a load of an unexpired store (its write accepted); so the expiry counts from
\* the creation whatever the use: the first load more than one year after
\* createdAt replaces the store by an empty one.
C30_CreatedAtKeptExpiryFromCreation ==
    /\ (pc \in {"effect", "idle"} /\ last.op \in EntityOperations) =>
            SameField(data, prev, "createdAt")
    /\ (pc = "idle" /\ last.op \in EntityOperations \cup {"load"}) =>
            SameField(JSONparse(slot), data, "createdAt")
    /\ (LoadedStoredStore /\ rejects = 0) =>
            IF now - JSONparse(prevSlot).createdAt > ONE_YEAR_S
            THEN wasDataCleared /\ EmptyStore(data) /\ data.createdAt = now
            ELSE ~wasDataCleared /\ data.createdAt = JSONparse(prevSlot).createdAt

\* a store created at 0 was loaded and saved again a year later, and the load a
\* second after that replaced it by an empty store
C30_Witness ==
    /\ LoadedStoredStore
    /\ rejects = 0
    /\ JSONparse(prevSlot).lastUsedAt = JSONparse(prevSlot).createdAt + ONE_YEAR_S
    /\ now = JSONparse(prevSlot).lastUsedAt + 1
    /\ Len(JSONparse(prevSlot).periods) > 0
    /\ wasDataCleared
    /\ EmptyStore(data)

====
